---------------------------- MODULE Spec2Model ----------------------------
(***************************************************************************)
(* Model of src/server/libs/markdown.js: the table-of-contents builder     *)
(* (buildTreeFlatArray, parseTree) and the markup post-processing of       *)
(* parseContent (section enclosure, video embeds).                         *)
(*                                                                         *)
(* Indices are 0-based as in the JavaScript source; a TLA+ sequence s is   *)
(* read at s[i + 1].                                                       *)
(***************************************************************************)
EXTENDS Integers, Sequences, FiniteSets, TLC

VARIABLES
  pc,          \* position of the running call
  tokens,      \* parseTree: the token stream md().parse returned
  tokIdx,      \* parseTree: the loop variable i of the extraction loop
  tocArray,    \* the flat array of heading records ("array" in buildTreeFlatArray)
  argLevel,    \* requestedLevel as passed by the caller (0: omitted / falsy)
  argStart,    \* requestedLevelContext.startFrom as passed (0: omitted / falsy)
  stack,       \* activation records of buildTreeFlatArray, outermost first
  result,      \* the forest the outermost call returned
  ctxStartFrom,\* requestedLevelContext.startFrom of the outermost call
  steps,       \* history: number of steps the running call has taken
  dom,         \* parseContent: the children of cr.root(), a forest of markup nodes
  dom0,        \* history: dom when the running pass of the pipeline began
  domH2,       \* history: dom when the h2 loop of the running pass ended
  domH3,       \* history: dom when the h3 loop of the running pass ended
  out1,        \* history: dom when the first pass ended
  stage,       \* parseContent: the rule of the pipeline that is running
  queue,       \* the elements the running .each() has still to visit (ids)
  rule,        \* index into videoRules of the running _.forEach
  nextId,      \* identity of the next node the pipeline creates
  pass         \* 1: first application of the pipeline, 2: second

treeVars == <<pc, tokens, tokIdx, tocArray, argLevel, argStart, stack, result,
              ctxStartFrom, steps>>

domVars == <<dom, dom0, domH2, domH3, out1, stage, queue, rule, nextId, pass>>

vars == <<treeVars, domVars>>

-----------------------------------------------------------------------------
(* Bounds of the model *)

MaxLen == 4
MaxLevel == 3
MaxBlocks == 3
MaxHeadingLevel == 4
MaxNodes == 4
MaxLinks == 1

(* Program constant: the deepest level kept in the outline. *)
MaxTocLevel == 3

-----------------------------------------------------------------------------
(* The state of parseContent while parseTree or buildTreeFlatArray runs,   *)
(* and the state of those while parseContent runs.                         *)

DomIdle ==
  /\ dom = <<>> /\ dom0 = <<>> /\ domH2 = <<>> /\ domH3 = <<>> /\ out1 = <<>>
  /\ stage = "idle" /\ queue = <<>> /\ rule = 0 /\ nextId = 0 /\ pass = 0

TreeIdle ==
  /\ pc = "idle" /\ tokens = <<>> /\ tokIdx = 0 /\ tocArray = <<>>
  /\ argLevel = 0 /\ argStart = 0 /\ stack = <<>> /\ result = <<>>
  /\ ctxStartFrom = 0 /\ steps = 0

-----------------------------------------------------------------------------
(* Heading texts.  The i-th heading of an input carries the i-th title, so  *)
(* that every record of one input is distinguishable.                       *)

Titles == <<"Getting Started", "API", "Install Guide", "FAQ", "Change Log", "Notes">>

Title(i) == Titles[((i - 1) % Len(Titles)) + 1]

(* _.kebabCase on the texts the model uses. *)
KebabCase(s) ==
  CASE s = "Getting Started" -> "getting-started"
    [] s = "API"             -> "api"
    [] s = "Install Guide"   -> "install-guide"
    [] s = "FAQ"             -> "faq"
    [] s = "Change Log"      -> "change-log"
    [] s = "Notes"           -> "notes"
    [] OTHER                 -> ""

(* The inline source of a heading whose whole content is one link. *)
LinkSource(s) ==
  CASE s = "Getting Started" -> "[Getting Started](/start)"
    [] s = "API"             -> "[API](/api)"
    [] s = "Install Guide"   -> "[Install Guide](/install)"
    [] s = "FAQ"             -> "[FAQ](/faq)"
    [] s = "Change Log"      -> "[Change Log](/changes)"
    [] s = "Notes"           -> "[Notes](/notes)"
    [] OTHER                 -> s

(* remove-markdown: a link is reduced to its text, plain text is kept. *)
MdRemove(s) ==
  CASE s = "[Getting Started](/start)" -> "Getting Started"
    [] s = "[API](/api)"               -> "API"
    [] s = "[Install Guide](/install)" -> "Install Guide"
    [] s = "[FAQ](/faq)"               -> "FAQ"
    [] s = "[Change Log](/changes)"    -> "Change Log"
    [] s = "[Notes](/notes)"           -> "Notes"
    [] OTHER                           -> s

-----------------------------------------------------------------------------
(* buildTreeFlatArray *)

(* x || d on numbers: 0 and undefined (modelled as 0) are falsy. *)
OrDefault(x, d) == IF x = 0 THEN d ELSE x

(* The object pushed at lines 119-123.  level and src (the index of the    *)
(* source record) are history fields: the JavaScript node holds content,   *)
(* anchor and nodes only.                                                  *)
NewNode(array, index) ==
  [content |-> array[index + 1].content,
   anchor  |-> array[index + 1].anchor,
   nodes   |-> <<>>,
   level   |-> array[index + 1].level,
   src     |-> index]

(* Variant of line 136 that writes to the first node instead of the last. *)
AttachToFirst(tree, t) == [tree EXCEPT ![1].nodes = t]

(* Line 136: requestedLevelTree[requestedLevelTree.length - 1].nodes = t *)
AttachToLast(tree, t) == [tree EXCEPT ![Len(tree)].nodes = t]

(* Variant of the loop body without the break of lines 113-115: a record   *)
(* of a lower level is pushed like one of the requested level.             *)
BranchNoBreak(level, requestedLevel) ==
  IF level <= requestedLevel THEN "push" ELSE "recurse"

(* Variant of line 113 that compares with <= instead of <. *)
BranchBreakLE(level, requestedLevel) ==
  IF level <= requestedLevel THEN "break" ELSE "recurse"

(* The three branches of the loop body, lines 113, 118, 131. *)
Branch(level, requestedLevel) ==
  IF level < requestedLevel THEN "break"
  ELSE IF level = requestedLevel THEN "push"
  ELSE "recurse"

Top == stack[Len(stack)]

Running == pc = "run" /\ Len(stack) > 0

AtItem == Running /\ Top.index < Len(tocArray)

(* Lines 102-108: defaults of the arguments, the empty tree, the cursor. *)
Enter ==
  /\ pc = "call"
  /\ pc' = "run"
  /\ stack' = <<[requestedLevel |-> OrDefault(argLevel, 1),
                 index |-> OrDefault(argStart, 0),
                 requestedLevelTree |-> <<>>]>>
  /\ steps' = steps + 1
  /\ UNCHANGED <<tokens, tokIdx, tocArray, argLevel, argStart, result, ctxStartFrom>>
  /\ UNCHANGED domVars

(* Lines 118-127: a record of the requested level becomes a node. *)
PushNode ==
  /\ AtItem
  /\ Branch(tocArray[Top.index + 1].level, Top.requestedLevel) = "push"
  /\ stack' = [stack EXCEPT ![Len(stack)] =
                 [@ EXCEPT !.requestedLevelTree = Append(@, NewNode(tocArray, Top.index)),
                           !.index = @ + 1]]
  /\ steps' = steps + 1
  /\ UNCHANGED <<pc, tokens, tokIdx, tocArray, argLevel, argStart, result, ctxStartFrom>>
  /\ UNCHANGED domVars

(* Lines 131-135: the recursive call for a deeper record. *)
Recurse ==
  /\ AtItem
  /\ Branch(tocArray[Top.index + 1].level, Top.requestedLevel) = "recurse"
  /\ stack' = Append(stack, [requestedLevel |-> tocArray[Top.index + 1].level,
                             index |-> Top.index,
                             requestedLevelTree |-> <<>>])
  /\ steps' = steps + 1
  /\ UNCHANGED <<pc, tokens, tokIdx, tocArray, argLevel, argStart, result, ctxStartFrom>>
  /\ UNCHANGED domVars

(* The loop of the running activation ends: the cursor is out of bounds    *)
(* (line 109) or the record is of a lower level (lines 113-115).           *)
LoopEnds ==
  /\ Running
  /\ \/ Top.index >= Len(tocArray)
     \/ /\ Top.index < Len(tocArray)
        /\ Branch(tocArray[Top.index + 1].level, Top.requestedLevel) = "break"

(* Lines 144-146 of the outermost call. *)
ReturnOuter ==
  /\ LoopEnds
  /\ Len(stack) = 1
  /\ result' = Top.requestedLevelTree
  /\ ctxStartFrom' = Top.index
  /\ stack' = <<>>
  /\ pc' = "done"
  /\ steps' = steps + 1
  /\ UNCHANGED <<tokens, tokIdx, tocArray, argLevel, argStart>>
  /\ UNCHANGED domVars

(* Lines 144-146 of a recursive call, then lines 136-139 of its caller.    *)
(* With an empty requestedLevelTree line 136 reads a property of           *)
(* undefined: a TypeError, which nothing catches.                          *)
ReturnInner ==
  /\ LoopEnds
  /\ Len(stack) > 1
  /\ LET caller == stack[Len(stack) - 1]
     IN IF Len(caller.requestedLevelTree) = 0
        THEN /\ pc' = "thrown"
             /\ stack' = <<>>
        ELSE /\ pc' = pc
             /\ stack' = [SubSeq(stack, 1, Len(stack) - 1) EXCEPT ![Len(stack) - 1] =
                            [@ EXCEPT !.requestedLevelTree = AttachToLast(@, Top.requestedLevelTree),
                                      !.index = Top.index]]
  /\ steps' = steps + 1
  /\ UNCHANGED <<tokens, tokIdx, tocArray, argLevel, argStart, result, ctxStartFrom>>
  /\ UNCHANGED domVars

BuildStep == Enter \/ PushNode \/ Recurse \/ ReturnOuter \/ ReturnInner

-----------------------------------------------------------------------------
(* Inputs of buildTreeFlatArray: every list of at most MaxLen records with  *)
(* levels in 1..MaxLevel, every requested level and every start offset.     *)

Record(i, l) == [content |-> Title(i), anchor |-> KebabCase(Title(i)), level |-> l]

ArrayOf(levels) == [i \in 1..Len(levels) |-> Record(i, levels[i])]

LevelLists == UNION {[1..n -> 1..MaxLevel] : n \in 0..MaxLen}

InitBuild ==
  /\ pc = "call"
  /\ tokens = <<>>
  /\ tokIdx = 0
  /\ \E levels \in LevelLists : tocArray = ArrayOf(levels)
  /\ argLevel \in 0..MaxLevel
  /\ argStart \in 0..Len(tocArray)
  /\ stack = <<>>
  /\ result = <<>>
  /\ ctxStartFrom = argStart
  /\ steps = 0
  /\ DomIdle

NextBuild == BuildStep

SpecBuild == InitBuild /\ [][NextBuild]_vars

-----------------------------------------------------------------------------
(* parseTree *)

Tok(type, tag, content, children) ==
  [type |-> type, tag |-> tag, content |-> content, children |-> children]

HeadingTag(l) ==
  CASE l = 1 -> "h1" [] l = 2 -> "h2" [] l = 3 -> "h3"
    [] l = 4 -> "h4" [] l = 5 -> "h5" [] OTHER -> "h6"

(* +tag.substr(1, 1): the digit of the tag as a number. *)
TagLevel(tag) ==
  CASE tag = "h1" -> 1 [] tag = "h2" -> 2 [] tag = "h3" -> 3
    [] tag = "h4" -> 4 [] tag = "h5" -> 5 [] tag = "h6" -> 6

(* The tokens markdown-it emits for one block: a paragraph, a heading of   *)
(* plain text, or a heading whose content is one link.                     *)
BlockTokens(b, i) ==
  IF b.kind = "para"
  THEN <<Tok("paragraph_open", "p", "", <<>>),
         Tok("inline", "", "text", <<Tok("text", "", "text", <<>>)>>),
         Tok("paragraph_close", "p", "", <<>>)>>
  ELSE <<Tok("heading_open", HeadingTag(b.level), "", <<>>),
         IF b.kind = "link"
         THEN Tok("inline", "", LinkSource(Title(i)),
                  <<Tok("link_open", "a", "", <<>>),
                    Tok("text", "", Title(i), <<>>),
                    Tok("link_close", "a", "", <<>>)>>)
         ELSE Tok("inline", "", Title(i), <<Tok("text", "", Title(i), <<>>)>>),
         Tok("heading_close", HeadingTag(b.level), "", <<>>)>>

RECURSIVE TokensOf(_, _)
TokensOf(blocks, i) ==
  IF i > Len(blocks) THEN <<>>
  ELSE BlockTokens(blocks[i], i) \o TokensOf(blocks, i + 1)

(* heading.children.reduce((acc, t) => acc + t.content, '') *)
RECURSIVE ConcatContent(_)
ConcatContent(children) ==
  IF Len(children) = 0 THEN ""
  ELSE children[1].content \o ConcatContent(Tail(children))

(* Lines 167-185: the record pushed for the heading_close token at i. *)
HeadingRecord(toks, i) ==
  LET heading == toks[i]           \* tokens[i - 1], 0-based
      headingclose == toks[i + 1]  \* tokens[i]
      linked == /\ Len(heading.children) > 0
                /\ heading.children[1].type = "link_open"
      content == IF linked THEN MdRemove(heading.children[2].content)
                 ELSE MdRemove(heading.content)
      anchor == IF linked THEN KebabCase(content)
                ELSE KebabCase(ConcatContent(heading.children))
  IN [content |-> content, anchor |-> anchor, level |-> TagLevel(headingclose.tag)]

(* Variant of the predicate of line 191 that follows the comment of line   *)
(* 189, "Exclude levels deeper than 2".                                    *)
TooDeepPerComment(n) == n.level > MaxTocLevel - 1

(* The predicate of _.remove at line 191. *)
TooDeep(n) == n.level > MaxTocLevel

(* One iteration of the loop of lines 162-187.  A heading_close token is   *)
(* never the first of a stream: a heading is open, inline, close.          *)
ExtractStep ==
  /\ pc = "extract"
  /\ tokIdx < Len(tokens)
  /\ tokIdx' = tokIdx + 1
  /\ tocArray' = IF /\ tokens[tokIdx + 1].type = "heading_close"
                    /\ tokIdx > 0
                    /\ tokens[tokIdx].type = "inline"
                 THEN Append(tocArray, HeadingRecord(tokens, tokIdx))
                 ELSE tocArray
  /\ steps' = steps + 1
  /\ UNCHANGED <<pc, tokens, argLevel, argStart, stack, result, ctxStartFrom>>
  /\ UNCHANGED domVars

(* Line 191, then the call of line 195 with the array alone. *)
RemoveDeep ==
  /\ pc = "extract"
  /\ tokIdx = Len(tokens)
  /\ LET Kept(n) == ~TooDeep(n)
     IN tocArray' = SelectSeq(tocArray, Kept)
  /\ argLevel' = 0
  /\ argStart' = 0
  /\ pc' = "call"
  /\ steps' = steps + 1
  /\ UNCHANGED <<tokens, tokIdx, stack, result, ctxStartFrom>>
  /\ UNCHANGED domVars

Blocks ==
  {[kind |-> "para", level |-> 0]}
    \cup [kind : {"plain", "link"}, level : 1..MaxHeadingLevel]

InitTree ==
  /\ pc = "extract"
  /\ \E n \in 0..MaxBlocks : \E blocks \in [1..n -> Blocks] : tokens = TokensOf(blocks, 1)
  /\ tokIdx = 0
  /\ tocArray = <<>>
  /\ argLevel = 0
  /\ argStart = 0
  /\ stack = <<>>
  /\ result = <<>>
  /\ ctxStartFrom = 0
  /\ steps = 0
  /\ DomIdle

NextTree == ExtractStep \/ RemoveDeep \/ BuildStep

SpecTree == InitTree /\ [][NextTree]_vars

-----------------------------------------------------------------------------
(* buildTreeFlatArray as a function of its arguments: the loop of lines    *)
(* 109-141 from cursor index with the tree built so far; thrown is the     *)
(* TypeError of line 136.                                                  *)
RECURSIVE BuildFrom(_, _, _, _)
BuildFrom(array, requestedLevel, index, tree) ==
  IF index >= Len(array)
  THEN [requestedLevelTree |-> tree, index |-> index, thrown |-> FALSE]
  ELSE LET b == Branch(array[index + 1].level, requestedLevel)
       IN IF b = "break"
          THEN [requestedLevelTree |-> tree, index |-> index, thrown |-> FALSE]
          ELSE IF b = "push"
          THEN BuildFrom(array, requestedLevel, index + 1,
                         Append(tree, NewNode(array, index)))
          ELSE LET sub == BuildFrom(array, array[index + 1].level, index, <<>>)
               IN IF sub.thrown \/ Len(tree) = 0
                  THEN [requestedLevelTree |-> <<>>, index |-> index, thrown |-> TRUE]
                  ELSE BuildFrom(array, requestedLevel, sub.index,
                                 AttachToLast(tree, sub.requestedLevelTree))

-----------------------------------------------------------------------------
(* parseContent: the markup tree.                                          *)
(*                                                                         *)
(* A node has an identity, a tag ("#text" for a text node), its classes,   *)
(* its href attribute (<<>> when it has none), the markup string it was    *)
(* created from (embeds) and its children.  The tree has at least one      *)
(* top-level element (line 208 returns '' otherwise).  The rules of lines  *)
(* 212-242 and 283-288 change classes, the first paragraph and the inside  *)
(* of headings only and are not part of the model.  cheerio's traversal and manipulation methods are         *)
(* modelled by their documented behaviour: they walk element siblings and  *)
(* pass over text nodes.                                                   *)

Node(id, tag, cls, href, kids) ==
  [id |-> id, tag |-> tag, cls |-> cls, href |-> href, html |-> "", kids |-> kids]

IsElem(n) == n.tag # "#text"

RECURSIVE DomNodes(_)
(* Every node of a forest of markup nodes. *)
DomNodes(kids) ==
  IF Len(kids) = 0 THEN {}
  ELSE {kids[1]} \cup DomNodes(kids[1].kids) \cup DomNodes(Tail(kids))

DomIds(kids) == {n.id : n \in DomNodes(kids)}

NodeById(kids, id) == CHOOSE n \in DomNodes(kids) : n.id = id

Ids(seq) == [i \in 1..Len(seq) |-> seq[i].id]

(* A selector: a set of tags (empty: any) and a set of required classes. *)
Matches(n, sel) ==
  /\ IsElem(n)
  /\ sel.tags = {} \/ n.tag \in sel.tags
  /\ sel.cls \subseteq n.cls

RECURSIVE SelectIds(_, _)
(* cr(selector): the matching elements in document order. *)
SelectIds(kids, sel) ==
  IF Len(kids) = 0 THEN <<>>
  ELSE (IF Matches(kids[1], sel) THEN <<kids[1].id>> ELSE <<>>)
         \o SelectIds(kids[1].kids, sel) \o SelectIds(Tail(kids), sel)

IndexOfId(kids, id) ==
  IF \E q \in 1..Len(kids) : kids[q].id = id
  THEN CHOOSE q \in 1..Len(kids) : kids[q].id = id
  ELSE 0

(* The first index after p whose node satisfies the test set, or Len + 1. *)
FirstIn(kids, p, hits) ==
  IF \E q \in hits : q > p
  THEN CHOOSE q \in hits : q > p /\ \A r \in hits : r > p => q <= r
  ELSE Len(kids) + 1

(* cr(elm).nextUntil(selector): the element siblings that follow position  *)
(* p, up to and without the first that has one of the tags.                *)
NextUntil(kids, p, until) ==
  LET stop == FirstIn(kids, p, {q \in 1..Len(kids) : IsElem(kids[q]) /\ kids[q].tag \in until})
  IN SelectSeq(SubSeq(kids, p + 1, stop - 1), IsElem)

(* cr(elm).after(markup): the new node right after position p. *)
After(kids, p, n) == SubSeq(kids, 1, p) \o <<n>> \o SubSeq(kids, p + 1, Len(kids))

(* cr(elm).next(.cls): the next element sibling when it has the class, as  *)
(* an index; 0 for an empty selection.                                     *)
NextWithClass(kids, p, c) ==
  LET q == FirstIn(kids, p, {r \in 1..Len(kids) : IsElem(kids[r])})
  IN IF q <= Len(kids) /\ c \in kids[q].cls THEN q ELSE 0

(* _.forEach(content, ch => cr(container).append(ch)): every collected     *)
(* node leaves its place and becomes the last child of the container.      *)
AppendAll(kids, q, content) ==
  IF q = 0 THEN kids
  ELSE LET moved == {content[i].id : i \in 1..Len(content)}
           target == kids[q].id
           Stays(n) == n.id \notin moved
           rest == SelectSeq(kids, Stays)
       IN [i \in 1..Len(rest) |->
             IF rest[i].id = target
             THEN [rest[i] EXCEPT !.kids = @ \o content]
             ELSE rest[i]]

(* The body of the .each() of lines 246-253 and 255-262 on the sibling     *)
(* list that holds the heading at position p.                              *)
EncloseIn(kids, p, until, c, newId) ==
  LET content == NextUntil(kids, p, until)
      k1 == After(kids, p, Node(newId, "div", {c}, <<>>, <<>>))
      container == NextWithClass(k1, p, c)
  IN AppendAll(k1, container, content)

RECURSIVE Enclose(_, _, _, _, _)
Enclose(kids, id, until, c, newId) ==
  IF IndexOfId(kids, id) > 0
  THEN EncloseIn(kids, IndexOfId(kids, id), until, c, newId)
  ELSE [i \in 1..Len(kids) |->
          [kids[i] EXCEPT !.kids = Enclose(@, id, until, c, newId)]]

RECURSIVE ReplaceNode(_, _, _)
(* cr(elm).replaceWith(markup) *)
ReplaceNode(kids, id, n) ==
  [i \in 1..Len(kids) |->
     IF kids[i].id = id THEN n
     ELSE [kids[i] EXCEPT !.kids = ReplaceNode(@, id, n)]]

(* Variant of the h3 boundary that stops at h1 and h2 only, as the h2 loop. *)
H3UntilAsH2 == {"h1", "h2"}

H2Until == {"h1", "h2"}
H3Until == {"h1", "h2", "h3"}

-----------------------------------------------------------------------------
(* parseContent: video rules, lines 67-88.  output is held as the text     *)
(* before and the text after its placeholder {0}.                          *)

VideoRules == <<
  [cls |-> "youtube", regexp |-> TRUE, tag |-> "iframe",
   pre |-> "<iframe width=\"640\" height=\"360\" src=\"https://www.youtube.com/embed/",
   post |-> "?rel=0\" frameborder=\"0\" allowfullscreen></iframe>"],
  [cls |-> "vimeo", regexp |-> TRUE, tag |-> "iframe",
   pre |-> "<iframe src=\"https://player.vimeo.com/video/",
   post |-> "\" width=\"640\" height=\"360\" frameborder=\"0\" webkitallowfullscreen mozallowfullscreen allowfullscreen></iframe>"],
  [cls |-> "dailymotion", regexp |-> TRUE, tag |-> "iframe",
   pre |-> "<iframe width=\"640\" height=\"360\" src=\"//www.dailymotion.com/embed/video/",
   post |-> "?endscreen-enable=false\" frameborder=\"0\" allowfullscreen></iframe>"],
  [cls |-> "video", regexp |-> FALSE, tag |-> "video",
   pre |-> "<video width=\"640\" height=\"360\" controls preload=\"metadata\"><source src=\"",
   post |-> "\" type=\"video/mp4\"></video>"] >>

(* The href values of the inputs. *)
Hrefs == {"https://youtu.be/abc123",
          "https://www.youtube.com/watch?v=abc123&t=10",
          "https://youtu.be/",
          "https://vimeo.com/12345",
          "https://www.dailymotion.com/video/x2abc_My-Title#video=x9z",
          "https://example.com/clip.mp4",
          "https://example.com/a$&b.mp4"}

(* originLink.match(vrule.regexp) on the hrefs above: the matched text     *)
(* followed by the capture groups ("" for a group that is empty or did not *)
(* take part), or <<>> for null.                                           *)
MatchArray(c, href) ==
  CASE c = "youtube" /\ href = "https://youtu.be/abc123" ->
         <<"youtu.be/abc123", "abc123">>
    [] c = "youtube" /\ href = "https://www.youtube.com/watch?v=abc123&t=10" ->
         <<"watch?v=abc123&t=10", "abc123">>
    [] c = "youtube" /\ href = "https://youtu.be/" ->
         <<"youtu.be/", "">>
    [] c = "vimeo" /\ href = "https://vimeo.com/12345" ->
         <<"vimeo.com/12345", "12345">>
    [] c = "dailymotion"
         /\ href = "https://www.dailymotion.com/video/x2abc_My-Title#video=x9z" ->
         <<"dailymotion.com/video/x2abc_My-Title#video=x9z", "x2abc", "x9z">>
    [] OTHER -> <<>>

(* _.filter(vidMatches, f => f && _.isString(f)) *)
Truthy(f) == f # ""

(* Variant of line 275 that takes the first entry, _.head. *)
FirstEntry(seq) == seq[1]

(* _.last *)
LastEntry(seq) == seq[Len(seq)]

(* The replacement patterns String.prototype.replace expands in the        *)
(* replacement text: $& stands for the matched text, here the placeholder. *)
ExpandDollar(value) ==
  IF value = "https://example.com/a$&b.mp4"
  THEN "https://example.com/a" \o "{0}" \o "b.mp4"
  ELSE value

(* _.replace(vrule.output, '{0}', originLink) *)
ReplacePlaceholder(r, value) == r.pre \o ExpandDollar(value) \o r.post

(* Lines 268-277 for an element that has an href. *)
OriginLink(r, href) ==
  IF r.regexp
  THEN LET vidMatches == MatchArray(r.cls, href)
       IN IF Len(vidMatches) > 0
          THEN LastEntry(SelectSeq(vidMatches, Truthy))
          ELSE href
  ELSE href

VideoSel(r) == [tags |-> {"a"}, cls |-> {VideoRules[r].cls}]

-----------------------------------------------------------------------------
(* parseContent: the pipeline *)

(* Line 246: cr('h2') *)
SelectH2 ==
  /\ stage = "start"
  /\ queue' = SelectIds(dom, [tags |-> {"h2"}, cls |-> {}])
  /\ stage' = "h2"
  /\ UNCHANGED <<dom, dom0, domH2, domH3, out1, rule, nextId, pass>>
  /\ UNCHANGED treeVars

(* Lines 246-253, one element. *)
EncloseH2 ==
  /\ stage = "h2"
  /\ Len(queue) > 0
  /\ dom' = Enclose(dom, Head(queue), H2Until, "indent-h2", nextId)
  /\ nextId' = nextId + 1
  /\ queue' = Tail(queue)
  /\ UNCHANGED <<dom0, domH2, domH3, out1, stage, rule, pass>>
  /\ UNCHANGED treeVars

(* Line 255: cr('h3') *)
SelectH3 ==
  /\ stage = "h2"
  /\ Len(queue) = 0
  /\ queue' = SelectIds(dom, [tags |-> {"h3"}, cls |-> {}])
  /\ stage' = "h3"
  /\ domH2' = dom
  /\ UNCHANGED <<dom, dom0, domH3, out1, rule, nextId, pass>>
  /\ UNCHANGED treeVars

(* Lines 255-262, one element. *)
EncloseH3 ==
  /\ stage = "h3"
  /\ Len(queue) > 0
  /\ dom' = Enclose(dom, Head(queue), H3Until, "indent-h3", nextId)
  /\ nextId' = nextId + 1
  /\ queue' = Tail(queue)
  /\ UNCHANGED <<dom0, domH2, domH3, out1, stage, rule, pass>>
  /\ UNCHANGED treeVars

(* Lines 266-267 for the first rule. *)
SelectVideo ==
  /\ stage = "h3"
  /\ Len(queue) = 0
  /\ stage' = "video"
  /\ rule' = 1
  /\ queue' = SelectIds(dom, VideoSel(1))
  /\ domH3' = dom
  /\ UNCHANGED <<dom, dom0, domH2, out1, nextId, pass>>
  /\ UNCHANGED treeVars

(* Lines 267-280, one element.  Without an href originLink is undefined:   *)
(* under a rule with a regexp line 270 calls match on undefined, a         *)
(* TypeError; under the rule without one the text "undefined" is           *)
(* substituted.                                                            *)
ReplaceVideo ==
  /\ stage = "video"
  /\ Len(queue) > 0
  /\ LET elm == NodeById(dom, Head(queue))
         r == VideoRules[rule]
     IN IF Len(elm.href) = 0 /\ r.regexp
        THEN /\ stage' = "thrown"
             /\ UNCHANGED <<dom, queue>>
        ELSE LET originLink == IF Len(elm.href) = 0 THEN "undefined"
                               ELSE OriginLink(r, elm.href[1])
                 processedLink == ReplacePlaceholder(r, originLink)
             IN /\ dom' = ReplaceNode(dom, elm.id,
                            [Node(elm.id, r.tag, {}, <<>>, <<>>) EXCEPT !.html = processedLink])
                /\ queue' = Tail(queue)
                /\ stage' = stage
  /\ UNCHANGED <<dom0, domH2, domH3, out1, rule, nextId, pass>>
  /\ UNCHANGED treeVars

(* Lines 266-267 for the next rule. *)
NextRule ==
  /\ stage = "video"
  /\ Len(queue) = 0
  /\ rule < Len(VideoRules)
  /\ rule' = rule + 1
  /\ queue' = SelectIds(dom, VideoSel(rule + 1))
  /\ UNCHANGED <<dom, dom0, domH2, domH3, out1, stage, nextId, pass>>
  /\ UNCHANGED treeVars

(* Lines 290-292: the pipeline returns. *)
Finish ==
  /\ stage = "video"
  /\ Len(queue) = 0
  /\ rule = Len(VideoRules)
  /\ stage' = "done"
  /\ UNCHANGED <<dom, dom0, domH2, domH3, out1, queue, rule, nextId, pass>>
  /\ UNCHANGED treeVars

(* The pipeline is applied to its own result. *)
SecondPass ==
  /\ stage = "done"
  /\ pass = 1
  /\ pass' = 2
  /\ stage' = "start"
  /\ out1' = dom
  /\ dom0' = dom
  /\ UNCHANGED <<dom, domH2, domH3, queue, rule, nextId>>
  /\ UNCHANGED treeVars

ContentStep ==
  \/ SelectH2 \/ EncloseH2 \/ SelectH3 \/ EncloseH3
  \/ SelectVideo \/ ReplaceVideo \/ NextRule \/ Finish \/ SecondPass

NextContent == ContentStep

-----------------------------------------------------------------------------
(* Inputs of parseContent.  The i-th top-level node has identity 10 * i,   *)
(* its j-th child 10 * i + j; created nodes count from FirstNewId.         *)

FirstNewId == 10 * (MaxNodes + MaxLinks + 3)

Kinds == {"h1", "h2", "h3", "p", "text", "bq", "plink"}

TopNode(kind, i) ==
  CASE kind = "text" -> Node(10 * i, "#text", {}, <<>>, <<>>)
    [] kind = "bq" ->
         Node(10 * i, "blockquote", {}, <<>>,
              <<Node(10 * i + 1, "p", {}, <<>>, <<>>),
                Node(10 * i + 2, "h2", {}, <<>>, <<>>),
                Node(10 * i + 3, "p", {}, <<>>, <<>>)>>)
    [] kind = "plink" ->
         Node(10 * i, "p", {}, <<>>,
              <<Node(10 * i + 1, "a", {"youtube"}, <<"https://youtu.be/abc123">>, <<>>)>>)
    [] OTHER -> Node(10 * i, kind, {}, <<>>, <<>>)

ContentStart(d) ==
  /\ dom = d /\ dom0 = d /\ domH2 = <<>> /\ domH3 = <<>> /\ out1 = <<>>
  /\ stage = "start" /\ queue = <<>> /\ rule = 0 /\ nextId = FirstNewId /\ pass = 1

InitContent ==
  /\ TreeIdle
  /\ \E n \in 1..MaxNodes : \E kinds \in [1..n -> Kinds] :
       ContentStart([i \in 1..n |-> TopNode(kinds[i], i)])

SpecContent == InitContent /\ [][NextContent]_vars

(* Inputs for the video rules: a heading of each kind, then paragraphs     *)
(* that hold one link each, of any class and href or none.                 *)
LinkClasses == {{"youtube"}, {"vimeo"}, {"dailymotion"}, {"video"}, {"youtube", "video"}, {}}

LinkHrefs == {<<>>} \cup {<<h>> : h \in Hrefs}

Links == [cls : LinkClasses, href : LinkHrefs]

LinkPara(l, i) ==
  Node(10 * i, "p", {}, <<>>, <<Node(10 * i + 1, "a", l.cls, l.href, <<>>)>>)

InitVideo ==
  /\ TreeIdle
  /\ \E n \in 1..MaxLinks : \E ls \in [1..n -> Links] :
       ContentStart(<<Node(10, "h2", {}, <<>>, <<>>), Node(20, "h3", {}, <<>>, <<>>)>>
                      \o [i \in 1..n |-> LinkPara(ls[i], i + 2)])

SpecVideo == InitVideo /\ [][NextContent]_vars

-----------------------------------------------------------------------------
(* Forests *)

RECURSIVE Flatten(_)
(* The pre-order sequence of the (content, anchor) pairs of a forest. *)
Flatten(f) ==
  IF Len(f) = 0 THEN <<>>
  ELSE <<[content |-> f[1].content, anchor |-> f[1].anchor]>>
         \o Flatten(f[1].nodes) \o Flatten(Tail(f))

RECURSIVE AllNodes(_)
(* Every node of a forest, at any depth. *)
AllNodes(f) ==
  IF Len(f) = 0 THEN {}
  ELSE {f[1]} \cup AllNodes(f[1].nodes) \cup AllNodes(Tail(f))

RECURSIVE NodeCount(_)
NodeCount(f) ==
  IF Len(f) = 0 THEN 0
  ELSE 1 + NodeCount(f[1].nodes) + NodeCount(Tail(f))

RECURSIVE Depth(_)
Depth(f) ==
  IF Len(f) = 0 THEN 0
  ELSE LET d1 == 1 + Depth(f[1].nodes)
           d2 == Depth(Tail(f))
       IN IF d1 > d2 THEN d1 ELSE d2

(* The shape of a forest: the tree of source indices alone. *)
RECURSIVE Shape(_)
Shape(f) == [i \in 1..Len(f) |-> <<f[i].src, Shape(f[i].nodes)>>]

Pairs(array) ==
  [i \in 1..Len(array) |-> [content |-> array[i].content, anchor |-> array[i].anchor]]

LevelsOf(array) == [i \in 1..Len(array) |-> array[i].level]

(* The call parseTree makes: buildTreeFlatArray(tocArray), level 1 from 0. *)
DefaultCall == OrDefault(argLevel, 1) = 1 /\ argStart = 0

RequestedLevel == OrDefault(argLevel, 1)

(* A well-formed outline: the first heading has level 1, and every later   *)
(* heading either does not decrease the level (it stays, or opens a deeper *)
(* level) or resets to a level that is still open, i.e. the level of one   *)
(* of its ancestors-or-siblings.  open is the increasing sequence of open  *)
(* levels.                                                                 *)
RECURSIVE OutlineFrom(_, _, _)
OutlineFrom(levels, i, open) ==
  IF i > Len(levels) THEN TRUE
  ELSE LET l == levels[i]
           AtMost(x) == x <= l
           kept == SelectSeq(open, AtMost)
       IN IF l > open[Len(open)] THEN OutlineFrom(levels, i + 1, Append(open, l))
          ELSE /\ Len(kept) > 0
               /\ kept[Len(kept)] = l
               /\ OutlineFrom(levels, i + 1, kept)

WellFormedOutline(array) ==
  Len(array) > 0 => /\ array[1].level = 1
                    /\ OutlineFrom(LevelsOf(array), 2, <<1>>)

(* The children of every node share one level, deeper than the node's. *)
LevelsByOffset(f) ==
  \A n \in AllNodes(f) :
    \A j \in 1..Len(n.nodes) :
      /\ n.nodes[j].level > n.level
      /\ n.nodes[j].level = n.nodes[1].level

-----------------------------------------------------------------------------
(* C1: for a well-formed outline that starts at level 1, the pre-order     *)
(* flattening of the forest buildTreeFlatArray(array) returns is the       *)
(* sequence of (content, anchor) pairs of the list, every root has level 1 *)
(* and every node's level is its parent's level plus the offset its        *)
(* sibling group shares; [H1 A, H2 B, H3 C, H2 D] yields A[B[C], D].       *)
C1_RoundTrip ==
  (pc = "done" /\ DefaultCall /\ WellFormedOutline(tocArray)) =>
    /\ Flatten(result) = Pairs(tocArray)
    /\ \A i \in 1..Len(result) : result[i].level = 1
    /\ LevelsByOffset(result)
    /\ LevelsOf(tocArray) = <<1, 2, 3, 2>> =>
         Shape(result) = << <<0, << <<1, << <<2, <<>> >> >> >>, <<3, <<>> >> >> >> >>

C1_Witness ==
  /\ pc = "done" /\ DefaultCall /\ WellFormedOutline(tocArray)
  /\ LevelsOf(tocArray) = <<1, 2, 3, 2>>
  /\ Depth(result) = 3
  /\ Len(result[1].nodes) = 2

OrphanAt(i) ==
  /\ i >= OrDefault(argStart, 0) /\ i < Len(tocArray)
  /\ tocArray[i + 1].level > RequestedLevel
  /\ \A j \in OrDefault(argStart, 0)..(i - 1) : tocArray[j + 1].level > RequestedLevel

(* C2: a heading deeper than the requested level that comes before any     *)
(* heading of the requested level does not make buildTreeFlatArray raise.  *)
C2_OrphanNeverRaises ==
  (\E i \in 0..Len(tocArray) : OrphanAt(i)) => pc # "thrown"

(* C3: in a returned forest every child is deeper than its parent and no   *)
(* heading at or below the parent's level lies between the two in the      *)
(* source list.                                                            *)
C3_ChildrenDeeper ==
  pc = "done" =>
    \A n \in AllNodes(result) :
      \A j \in 1..Len(n.nodes) :
        LET c == n.nodes[j]
        IN /\ c.level > n.level
           /\ c.src > n.src
           /\ \A k \in (n.src + 1)..(c.src - 1) : tocArray[k + 1].level > n.level

C3_Witness ==
  /\ pc = "done"
  /\ \E n \in AllNodes(result) :
       /\ Len(n.nodes) = 2
       /\ n.nodes[2].src > n.src + 2

HeadingsOf(toks) ==
  LET closes == {i \in 1..Len(toks) : toks[i].type = "heading_close"}
      RECURSIVE Collect(_)
      Collect(i) == IF i > Len(toks) THEN <<>>
                    ELSE IF i \in closes
                         THEN <<HeadingRecord(toks, i - 1)>> \o Collect(i + 1)
                         ELSE Collect(i + 1)
  IN Collect(1)

UpToH3(n) == n.level <= 3

FirstLower ==
  LET lower == {i \in argStart..(Len(tocArray) - 1) : tocArray[i + 1].level < RequestedLevel}
  IN IF lower = {} THEN Len(tocArray)
     ELSE CHOOSE i \in lower : \A k \in lower : i <= k

StartsAtRequestedLevel ==
  /\ argStart < Len(tocArray)
  /\ tocArray[argStart + 1].level = RequestedLevel

(* C9: when the record at the start offset has the requested level, the    *)
(* call ends without raising, within 3 * (length - start) + 2 steps, and   *)
(* leaves in startFrom the smallest index from the start offset on whose   *)
(* record has a level lower than the requested one, or the list length.    *)
C9_TerminatesAtFirstLower ==
  StartsAtRequestedLevel =>
    /\ pc # "thrown"
    /\ steps <= 3 * (Len(tocArray) - argStart) + 2
    /\ pc # "done" => ENABLED NextBuild
    /\ pc = "done" => ctxStartFrom = FirstLower

C9_Witness ==
  /\ StartsAtRequestedLevel
  /\ pc = "done"
  /\ argStart > 0
  /\ ctxStartFrom < Len(tocArray)
  /\ ctxStartFrom > argStart + 1
  /\ Depth(result) > 1

(* C10: with levels in 1..3 and a first heading of level 1, every heading  *)
(* of the list is a node of the returned forest (as many nodes as          *)
(* records).                                                               *)
C10_NoHeadingLost ==
  (/\ pc = "done" /\ DefaultCall
   /\ Len(tocArray) > 0 /\ tocArray[1].level = 1
   /\ \A i \in 1..Len(tocArray) : tocArray[i].level \in 1..MaxTocLevel) =>
    NodeCount(result) = Len(tocArray)

-----------------------------------------------------------------------------
(* Reading a markup tree *)

RECURSIVE SiblingsOf(_, _)
(* The sibling list that holds the node id, <<>> when there is none. *)
SiblingsOf(kids, id) ==
  IF Len(kids) = 0 THEN <<>>
  ELSE IF IndexOfId(kids, id) > 0 THEN kids
  ELSE LET below == SiblingsOf(kids[1].kids, id)
       IN IF Len(below) > 0 THEN below ELSE SiblingsOf(Tail(kids), id)

RECURSIVE PreorderIds(_)
PreorderIds(kids) ==
  IF Len(kids) = 0 THEN <<>>
  ELSE <<kids[1].id>> \o PreorderIds(kids[1].kids) \o PreorderIds(Tail(kids))

(* The nodes that follow heading h among its siblings in tree before, up   *)
(* to and without the next element that has one of the until tags; with    *)
(* elemsOnly, the elements among them.                                     *)
Section(before, h, until, elemsOnly) ==
  LET S == SiblingsOf(before, h.id)
      p == IndexOfId(S, h.id)
      stop == FirstIn(S, p, {q \in 1..Len(S) : IsElem(S[q]) /\ S[q].tag \in until})
      all == SubSeq(S, p + 1, stop - 1)
  IN IF elemsOnly THEN SelectSeq(all, IsElem) ELSE all

NoNode == Node(0 - 1, "", {}, <<>>, <<>>)

(* The div of class c that immediately follows heading h in tree after. *)
ContainerAfter(after, h, c) ==
  LET K == SiblingsOf(after, h.id)
      p == IndexOfId(K, h.id)
  IN IF p > 0 /\ p < Len(K) /\ K[p + 1].tag = "div" /\ K[p + 1].cls = {c}
     THEN K[p + 1] ELSE NoNode

(* Every heading of the tag in tree before is, in tree after, immediately  *)
(* followed by a container that before does not have and whose children    *)
(* are, in order, the nodes of the heading's section.                      *)
Enclosed(before, after, tag, until, c, elemsOnly) ==
  \A h \in DomNodes(before) :
    h.tag = tag =>
      LET box == ContainerAfter(after, h, c)
      IN /\ box.id >= 0
         /\ box.id \notin DomIds(before)
         /\ Ids(box.kids) = Ids(Section(before, h, until, elemsOnly))

(* Every h2 container holds, at any depth and in the original order, the   *)
(* nodes of the section and what they held.                                *)
H2ContainersHoldSections ==
  \A h \in DomNodes(dom0) :
    h.tag = "h2" =>
      LET box == ContainerAfter(domH3, h, "indent-h2")
          Old(id) == id \in DomIds(dom0)
      IN SelectSeq(PreorderIds(box.kids), Old)
           = PreorderIds(Section(dom0, h, {"h1", "h2"}, TRUE))

(* An h3 of an h2's section, and the h3's container, are children of the   *)
(* h2's container.                                                         *)
H3InsideH2 ==
  \A g \in DomNodes(dom0) : \A h \in DomNodes(dom0) :
    (/\ g.tag = "h2" /\ h.tag = "h3"
     /\ h.id \in {n.id : n \in {Section(dom0, g, {"h1", "h2"}, TRUE)[i] :
                                  i \in 1..Len(Section(dom0, g, {"h1", "h2"}, TRUE))}}) =>
      LET box2 == ContainerAfter(domH3, g, "indent-h2")
          box3 == ContainerAfter(domH3, h, "indent-h3")
          inside == {box2.kids[i].id : i \in 1..Len(box2.kids)}
      IN box3.id >= 0 /\ box3.id \in inside /\ h.id \in inside

H2LoopOver == stage \in {"h3", "video", "done", "thrown"}
H3LoopOver == stage \in {"video", "done", "thrown"}

-----------------------------------------------------------------------------
(* C4, as claimed: a second application of the pipeline leaves the tree    *)
(* as the first application left it.                                       *)
C4_SecondPassChangesNothing ==
  (pass = 2 /\ stage = "done") => dom = out1

(* C5, as claimed: the video step does not raise on a matched link that    *)
(* has no href.                                                            *)
C5_MissingHrefNeverRaises ==
  ~(/\ stage = "thrown"
    /\ Len(queue) > 0
    /\ Len(NodeById(dom, Head(queue)).href) = 0)

(* C6, as claimed: the container after an h2 (an h3) holds exactly the     *)
(* sibling nodes, text nodes included, that followed the heading up to the *)
(* next h1 or h2 (h1, h2 or h3).                                           *)
C6_AllSiblingNodesEnclosed ==
  /\ H2LoopOver => Enclosed(dom0, domH2, "h2", {"h1", "h2"}, "indent-h2", FALSE)
  /\ H3LoopOver => Enclosed(dom0, domH3, "h3", {"h1", "h2", "h3"}, "indent-h3", FALSE)

(* C6, amended: after the h2 loop every h2 is immediately followed by one  *)
(* new container whose children are, in order, the sibling elements that   *)
(* followed the h2 up to the next h1 or h2; after the h3 loop the same     *)
(* holds of every h3 with the boundary h1, h2 or h3, every h2 container    *)
(* still holds its section in the original order, and an h3 of an h2's     *)
(* section lies with its container inside the h2's container.  Text nodes  *)
(* are not collected.                                                      *)
C6_SiblingElementsEnclosed ==
  /\ H2LoopOver => Enclosed(dom0, domH2, "h2", {"h1", "h2"}, "indent-h2", TRUE)
  /\ H3LoopOver =>
       /\ Enclosed(dom0, domH3, "h3", {"h1", "h2", "h3"}, "indent-h3", TRUE)
       /\ Enclosed(domH2, domH3, "h3", {"h1", "h2", "h3"}, "indent-h3", TRUE)
       /\ H2ContainersHoldSections
       /\ H3InsideH2

C6_Witness ==
  /\ stage = "done" /\ pass = 1
  /\ \E g \in DomNodes(dom0) : \E h \in DomNodes(dom0) :
       /\ g.tag = "h2" /\ h.tag = "h3"
       /\ Len(ContainerAfter(domH3, h, "indent-h3").kids) > 0
       /\ ContainerAfter(domH3, h, "indent-h3").id
            \in {n.id : n \in DomNodes(ContainerAfter(domH3, g, "indent-h2").kids)}
       /\ Len(ContainerAfter(domH3, g, "indent-h2").kids) > 2

-----------------------------------------------------------------------------
(* The video rule that handles a link: the first whose class it has. *)
RuleOf(a) ==
  LET hits == {r \in 1..Len(VideoRules) : VideoRules[r].cls \in a.cls}
  IN IF hits = {} THEN 0 ELSE CHOOSE r \in hits : \A q \in hits : r <= q

VideoLinks == {a \in DomNodes(domH3) : a.tag = "a" /\ Len(a.href) > 0 /\ RuleOf(a) > 0}

Replaced(a) == NodeById(dom, a.id).tag # "a"

LastNonEmpty(groups) ==
  LET filled == {i \in 1..Len(groups) : groups[i] # ""}
  IN IF filled = {} THEN ""
     ELSE groups[CHOOSE i \in filled : \A k \in filled : k <= i]

C8_ClaimedValue(r, href) ==
  IF ~r.regexp THEN href ELSE LastNonEmpty(Tail(MatchArray(r.cls, href)))

(* C8, as claimed: the embed is the template with, at its placeholder, the *)
(* raw href under a rule without link-pattern, and the last non-empty      *)
(* capture group of the pattern under a rule with one.                     *)
C8_RawOrLastGroup ==
  H3LoopOver =>
    \A a \in VideoLinks :
      Replaced(a) =>
        LET r == VideoRules[RuleOf(a)]
            v == IF r.regexp /\ Len(MatchArray(r.cls, a.href[1])) = 0 THEN ""
                 ELSE C8_ClaimedValue(r, a.href[1])
        IN /\ v # ""
           /\ NodeById(dom, a.id).html = r.pre \o v \o r.post

C8_AmendedValue(r, href) ==
  LET m == MatchArray(r.cls, href)
  IN IF ~r.regexp \/ Len(m) = 0 THEN href
     ELSE IF LastNonEmpty(Tail(m)) # "" THEN LastNonEmpty(Tail(m))
     ELSE m[1]

(* C8, amended: the value is the raw href when the rule has no             *)
(* link-pattern or the pattern does not match the href; otherwise the last *)
(* non-empty capture group, or the whole matched text when every group is  *)
(* empty.  The embed is the template with that value at the placeholder,   *)
(* the replacement patterns of String.prototype.replace in the value       *)
(* expanded, and it stands where the link was.  The href                   *)
(* https://youtu.be/abc123 under the youtube rule gives the embed src      *)
(* https://www.youtube.com/embed/abc123?rel=0.                             *)
C8_SubstitutedValue ==
  H3LoopOver =>
    /\ stage = "done" => \A a \in VideoLinks : Replaced(a)
    /\ \A a \in VideoLinks :
         Replaced(a) =>
           LET r == VideoRules[RuleOf(a)]
               e == NodeById(dom, a.id)
           IN /\ e.tag = r.tag
              /\ SiblingsOf(dom, a.id) =
                   ReplaceNode(SiblingsOf(domH3, a.id), a.id, e)
              /\ e.html = r.pre \o ExpandDollar(C8_AmendedValue(r, a.href[1])) \o r.post
              /\ (r.cls = "youtube" /\ a.href[1] = "https://youtu.be/abc123") =>
                   e.html = "<iframe width=\"640\" height=\"360\" src=\"https://www.youtube.com/embed/abc123?rel=0\" frameborder=\"0\" allowfullscreen></iframe>"

C8_Witness ==
  /\ stage = "done" /\ pass = 1
  /\ \E a \in VideoLinks :
       /\ Replaced(a)
       /\ a.cls = {"dailymotion"}
       /\ NodeById(dom, a.id).html =
            "<iframe width=\"640\" height=\"360\" src=\"//www.dailymotion.com/embed/video/x9z?endscreen-enable=false\" frameborder=\"0\" allowfullscreen></iframe>"

=============================================================================
